---- MODULE Spec2Model ----
(***************************************************************************)
(* The SDS011 driver (src/sds011/__init__.py) as a state machine: the      *)
(* driver object (use_query_mode, the open flag of its serial port), the   *)
(* bytes the serial port has still to deliver, the report mode the device  *)
(* is in, and what the most recent call did (events on the port, printed   *)
(* lines, result).                                                         *)
(*                                                                         *)
(* Bytes are integers 0..255, byte strings are sequences of them.  Python  *)
(* indices are 0-based: raw[8] of the source is raw[9] here.               *)
(***************************************************************************)
EXTENDS Integers, Sequences, FiniteSets, TLC

VARIABLES
    ser_open,        \* self.ser.isOpen()
    use_query_mode,  \* self.use_query_mode
    rx,              \* bytes the port will deliver to the next reads
    dev_query_mode,  \* the report mode the device is in: TRUE for query (passive)
    pushes,          \* unsolicited bursts the device has sent so far
    pc,              \* "idle", or "read" while read() is in its scan loop
    timeouts,        \* parity of the passes of that loop in which the port timed out
    call,            \* the most recent call: name, arguments, state at entry
    log,             \* what that call did on the port, in order
    printed,         \* the lines that call printed
    raw,             \* the last buffer that call handed to frame validation
    ret              \* what that call returned or raised

vars == <<ser_open, use_query_mode, rx, dev_query_mode, pushes, pc, timeouts, call, log, printed, raw, ret>>

----------------------------------------------------------------------------
(* Bounds of the model. *)

\* longest run of noise bytes the device puts in front of a frame
MaxNoise == 2
\* number of unsolicited bursts the device sends in one behaviour
MaxPush == 1
\* number of measurement frames a device in active mode sends in one behaviour
MaxReport == 2

----------------------------------------------------------------------------
(* Protocol constants. *)

HEAD == 170
TAIL == 171
CMD_ID == 180
READ == 0
WRITE == 1
REPORT_MODE_CMD == 2
ACTIVE == 0
PASSIVE == 1
QUERY_CMD == 4
SLEEP_CMD == 6
SLEEP == 0
WORK == 1
WORK_PERIOD_CMD == 8
FIRMWARE_VERSION_CMD == 7

----------------------------------------------------------------------------
(* Python byte strings. *)

Min(a, b) == IF a < b THEN a ELSE b

\* s[a:b]
Slice(s, a, b) == SubSeq(s, a + 1, Min(b, Len(s)))

\* s[a:]
SliceFrom(s, a) == SubSeq(s, a + 1, Len(s))

\* b"\x00" * n
Zeros(n) == [i \in 1..n |-> 0]

RECURSIVE Sum(_)
\* sum(d for d in s)
Sum(s) == IF s = <<>> THEN 0 ELSE Head(s) + Sum(Tail(s))

----------------------------------------------------------------------------
(* Values a call returns.  A float n / 10.0 is kept as its decimal          *)
(* expansion <<integer part, tenths digit>>; a string as its character     *)
(* codes.                                                                  *)

None == [kind |-> "None", v |-> <<>>]
IntVal(n) == [kind |-> "int", v |-> <<n>>]
BytesVal(b) == [kind |-> "bytes", v |-> b]
Pending == [kind |-> "pending", v |-> <<>>]

\* n / 10.0
Div10(n) == <<n \div 10, n % 10>>

\* (pm25, pm10)
PmVal(f0, f1) == [kind |-> "pm", v |-> Div10(f0) \o Div10(f1)]

RECURSIVE Dec(_)
\* str(n) for n >= 0, as character codes
Dec(n) == IF n < 10 THEN <<48 + n>> ELSE Dec(n \div 10) \o <<48 + (n % 10)>>

\* f"{year}-{month}-{day}"
StrVal(year, month, day) ==
    [kind |-> "str", v |-> Dec(year) \o <<45>> \o Dec(month) \o <<45>> \o Dec(day)]

\* struct.unpack('>HH', b): the two bytes of each field the other way round
UnpackHHBig(b) == <<256 * b[1] + b[2], 256 * b[3] + b[4]>>

\* struct.unpack('<HH', b) of a 4-byte string
UnpackHH(b) == <<b[1] + 256 * b[2], b[3] + 256 * b[4]>>

----------------------------------------------------------------------------
(* The serial port.  The record s threaded through the operators below is  *)
(* the driver and its port during one call:                                *)
(*   open, mode   self.ser.isOpen(), self.use_query_mode                   *)
(*   rx           bytes the port has still to deliver                      *)
(*   resp         what the device will answer to the writes of this call   *)
(*   dev          the report mode the device is in (TRUE: query)           *)
(*   answers      TRUE when the device answers each command as the         *)
(*                protocol says, and resp is not used                      *)
(*   log, printed events on the port, lines printed                        *)
(*   raw          the last buffer given to frame validation                *)
(*   got          the bytes of the last read                               *)
(*   ret, exc     the value returned by the last call, the exception       *)
(*                raised ("" when none)                                    *)

OpenEv == [ev |-> "open", size |-> 0, bytes |-> <<>>]
WriteEv(b) == [ev |-> "write", size |-> Len(b), bytes |-> b]
ReadEv(n, b) == [ev |-> "read", size |-> n, bytes |-> b]

\* serial.Serial(port=..., baudrate=..., timeout=...); self.ser.flush()
ser_new(s) == [s EXCEPT !.open = TRUE, !.log = Append(@, OpenEv)]

\* the device id in the frames the device sends
DeviceId == <<161, 96>>

\* a frame of the device: head, marker, four data bytes, id, checksum, tail
device_frame(marker, data) ==
    <<170, marker>> \o data \o DeviceId \o <<Sum(data \o DeviceId) % 256, 171>>

\* the report mode of the device after the command b: a report mode command
\* that is a write sets it
device_mode(dev, b) == IF b[3] = 2 /\ b[4] = 1 THEN b[5] = 1 ELSE dev

\* the one frame the device in report mode dev answers to the command b: a
\* measurement to a query, the firmware date to 07, and to the others the
\* command id, read or write, and the setting now in force
device_reply(dev, b) ==
    IF b[3] = 4 THEN device_frame(192, <<250, 0, 194, 1>>)
    ELSE IF b[3] = 7 THEN device_frame(197, <<7, 18, 11, 16>>)
    ELSE IF b[3] = 2 THEN device_frame(197, <<2, b[4], IF dev THEN 1 ELSE 0, 0>>)
    ELSE IF b[4] = 1 THEN device_frame(197, <<b[3], 1, b[5], 0>>)
    ELSE device_frame(197, <<b[3], 0, IF b[3] = 6 THEN 1 ELSE 0, 0>>)

\* self.ser.write(b): the device takes the command, and answers with the
\* next response, if any
ser_write(s, b) ==
    [s EXCEPT !.log = Append(@, WriteEv(b)),
              !.dev = device_mode(@, b),
              !.rx = IF s.answers THEN @ \o device_reply(device_mode(s.dev, b), b)
                     ELSE IF s.resp = <<>> THEN @ ELSE @ \o Head(s.resp),
              !.resp = IF @ = <<>> THEN @ ELSE Tail(@)]

\* self.ser.read(size=n): up to n bytes, fewer when the read times out
ser_read(s, n) ==
    LET b == Slice(s.rx, 0, n) IN
    [s EXCEPT !.got = b,
              !.rx = SliceFrom(@, Len(b)),
              !.log = Append(@, ReadEv(n, b))]

Return(s, v) == [s EXCEPT !.ret = v]
Raise(s, e) == [s EXCEPT !.exc = e]

----------------------------------------------------------------------------
(* The driver. *)

\* cmd_begin
cmd_begin == <<HEAD, CMD_ID>>

\* _finish_cmd with the sum taken from cmd[3:]
finish_cmd_short_sum(cmd) ==
    cmd \o <<255, 255>> \o <<Sum(SliceFrom(cmd \o <<255, 255>>, 3)) % 256, TAIL>>

\* _finish_cmd, with id1 = id2 = b"\xff"
finish_cmd(cmd) ==
    cmd \o <<255, 255>> \o <<Sum(SliceFrom(cmd \o <<255, 255>>, 2)) % 256, TAIL>>

\* the command of set_report_mode
report_mode_cmd(read, query) ==
    finish_cmd(cmd_begin \o <<REPORT_MODE_CMD,
                              IF read THEN READ ELSE WRITE,
                              IF query THEN PASSIVE ELSE ACTIVE>> \o Zeros(10))

\* the command of query
query_cmd == finish_cmd(cmd_begin \o <<QUERY_CMD>> \o Zeros(12))

\* the command of sleep
sleep_cmd(read, slp) ==
    finish_cmd(cmd_begin \o <<SLEEP_CMD,
                              IF read THEN READ ELSE WRITE,
                              IF slp THEN SLEEP ELSE WORK>> \o Zeros(10))

\* the command of set_work_period
work_period_cmd(read, work_time) ==
    finish_cmd(cmd_begin \o <<WORK_PERIOD_CMD,
                              IF read THEN READ ELSE WRITE,
                              work_time>> \o Zeros(10))

\* the command of check_firmware_version
firmware_cmd == finish_cmd(cmd_begin \o <<FIRMWARE_VERSION_CMD>> \o Zeros(12))

(* A statement that follows a call is skipped when the call raised: every   *)
(* operator below hands on, untouched, an s that carries an exception.     *)

\* _get_reply, from data = raw[2:8] on.  raw[8] of a reply of 3 to 8 bytes
\* is an IndexError.
reply_of(s, r) ==
    IF Len(Slice(r, 2, 8)) = 0 THEN Return(s, None)
    ELSE IF Len(r) < 9 THEN Raise(s, "IndexError")
    ELSE IF Sum(Slice(r, 2, 8)) % 256 # r[9] THEN Return(s, None)
    ELSE Return(s, BytesVal(r))

\* _get_reply, after raw = self.ser.read(size=10)
check_reply(s) == reply_of([s EXCEPT !.raw = s.got], s.got)

\* _get_reply, from the read on
read_reply(s) == IF s.exc # "" THEN s ELSE check_reply(ser_read(s, 10))

\* _execute, the write
write_cmd(s, cmd_bytes) == IF s.exc # "" THEN s ELSE ser_write(s, cmd_bytes)

\* set_report_mode, after raw = self._get_reply(), with the mode the reply
\* reports stored in self.use_query_mode
mode_bit_stored(s) ==
    IF s.exc # "" THEN s
    ELSE IF s.ret = None THEN Return(s, None)
    ELSE Return([s EXCEPT !.mode = (s.ret.v[5] = 1)], IntVal(s.ret.v[5]))

\* set_report_mode, after raw = self._get_reply()
mode_bit(s) ==
    IF s.exc # "" THEN s
    ELSE IF s.ret = None THEN Return(s, None)
    ELSE Return(s, IntVal(s.ret.v[5]))

\* set_report_mode as open_serial calls it: _execute and _get_reply find
\* open the port that open_serial has just made
reissue_report_mode(s, read, query) ==
    mode_bit(read_reply(write_cmd([s EXCEPT !.mode = query],
                                  report_mode_cmd(read, query))))

\* open_serial with query=True in place of query=self.use_query_mode
open_serial_query(s) == reissue_report_mode(ser_new(s), FALSE, TRUE)

\* open_serial
open_serial(s) == reissue_report_mode(ser_new(s), FALSE, s.mode)

\* if not self.is_serial_open(): self.open_serial()
ensure_open(s) == IF s.exc # "" \/ s.open THEN s ELSE open_serial(s)

\* _execute
execute(s, cmd_bytes) == write_cmd(ensure_open(s), cmd_bytes)

\* _get_reply
get_reply(s) == read_reply(ensure_open(s))

\* set_report_mode
set_report_mode(s, read, query) ==
    mode_bit(get_reply(execute([s EXCEPT !.mode = query],
                               report_mode_cmd(read, query))))

\* query, after raw = self._get_reply()
measurement(s) ==
    IF s.exc # "" THEN s
    ELSE IF s.ret = None
         THEN Return(IF s.mode = FALSE
                     THEN [s EXCEPT !.printed =
                             Append(@, "SDS011 is in active reporting mode, use read()")]
                     ELSE s,
                     None)
    ELSE Return(s, PmVal(UnpackHH(Slice(s.ret.v, 2, 6))[1],
                         UnpackHH(Slice(s.ret.v, 2, 6))[2]))

\* query
query(s) == measurement(get_reply(execute(s, query_cmd)))

\* sleep, after raw = self._get_reply()
work_bit(s) ==
    IF s.exc # "" THEN s
    ELSE IF s.ret = None THEN Return(s, IntVal(0))
    ELSE Return(s, IntVal(s.ret.v[5]))

\* sleep
sleep(s, read, slp) == work_bit(get_reply(execute(s, sleep_cmd(read, slp))))

\* set_work_period, the end: the reply is dropped
no_value(s) == IF s.exc # "" THEN s ELSE Return(s, None)

\* set_work_period with the assertion after the port has been opened
set_work_period_late_assert(s, read, work_time) ==
    IF ~(work_time >= 0 /\ work_time <= 30) THEN Raise(ensure_open(s), "AssertionError")
    ELSE no_value(get_reply(execute(s, work_period_cmd(read, work_time))))

\* set_work_period without its self._get_reply()
set_work_period_no_reply(s, read, work_time) ==
    IF ~(work_time >= 0 /\ work_time <= 30) THEN Raise(s, "AssertionError")
    ELSE no_value(execute(s, work_period_cmd(read, work_time)))

\* set_work_period
set_work_period(s, read, work_time) ==
    IF ~(work_time >= 0 /\ work_time <= 30) THEN Raise(s, "AssertionError")
    ELSE no_value(get_reply(execute(s, work_period_cmd(read, work_time))))

\* check_firmware_version, after raw = self._get_reply(): raw[2] of None is
\* a TypeError
version(s) ==
    IF s.exc # "" THEN s
    ELSE IF s.ret = None THEN Raise(s, "TypeError")
    ELSE Return(s, StrVal(s.ret.v[3], s.ret.v[4], s.ret.v[5]))

\* check_firmware_version
check_firmware_version(s) == version(get_reply(execute(s, firmware_cmd)))

\* _process_frame, on data: unpack needs the 9 bytes of data[2:]
frame_of(s, data) ==
    IF Len(SliceFrom(data, 2)) # 9 THEN Raise(s, "struct.error")
    ELSE IF Sum(Slice(data, 2, 8)) % 256 # data[9] THEN Return(s, None)
    ELSE Return(s, PmVal(UnpackHH(Slice(data, 2, 6))[1],
                         UnpackHH(Slice(data, 2, 6))[2]))

\* _process_frame
process_frame(s, data) == frame_of([s EXCEPT !.raw = data], data)

\* read, after data = self._process_frame(byte + d)
advise(s) ==
    IF s.exc = "" /\ s.ret = None /\ s.mode = TRUE
    THEN [s EXCEPT !.printed =
            Append(@, "SDS011 is in query reporting mode, use query()")]
    ELSE s

\* read, one pass of its loop after the two reads; ret stays Pending when
\* the loop goes on
scan(s, byte, d) ==
    IF Slice(d, 0, 1) = <<192>> THEN advise(process_frame(s, byte \o d))
    ELSE IF byte = <<HEAD>> THEN Return(s, None)
    ELSE Return(s, Pending)

\* read, after byte = self.ser.read(size=1)
scan_from(s, byte) == scan(ser_read(s, 10), byte, ser_read(s, 10).got)

\* read, one pass of its loop
read_pass(s) == scan_from(ser_read(s, 1), ser_read(s, 1).got)

\* read, up to its loop
read_enter(s) == ensure_open(s)

----------------------------------------------------------------------------
(* The device and the arguments of the calls: the inputs of the model. *)

\* four data bytes and two id bytes: 25.0/45.0, and one whose sum wraps
Payload1 == <<250, 0, 194, 1, 0, 0>>
Payload2 == <<255, 255, 1, 0, 18, 52>>
Payloads == {Payload1, Payload2}

\* a 10-byte frame; k is added to the right checksum
Frame(h, m, p, k) == <<h, m>> \o p \o <<(Sum(p) + k) % 256, TAIL>>

\* what the device may answer to a command: whole frames with a right or a
\* wrong head, marker and checksum, and frames cut short by the timeout
Replies ==
    {Frame(h, 197, Payload1, k) : h \in {HEAD, 0}, k \in {0, 1}}
    \cup {Frame(HEAD, 192, Payload1, k) : k \in {0, 1, 128}}
    \cup {Frame(HEAD, m, Payload2, 0) : m \in {192, 197}}
    \cup {Slice(Frame(HEAD, 197, Payload1, 0), 0, n) : n \in {0, 2, 5, 9}}

\* the answer to the report mode a reopening call writes first
ReopenReplies ==
    {Frame(HEAD, 197, Payload1, 0), <<>>, Slice(Frame(HEAD, 197, Payload1, 0), 0, 5)}

\* the answers of a device that has begun to push frames
PushReplies == {Frame(HEAD, 197, Payload1, 0), <<>>}

\* the answers to the writes of one call: one write when the port is open,
\* two (the report mode, then the command) when the call reopens it
Responses(open) ==
    IF pushes > 0 THEN {<<r1, r2>> : r1 \in PushReplies, r2 \in PushReplies}
    ELSE IF open THEN {<<r>> : r \in Replies}
    ELSE {<<r1, r2>> : r1 \in ReopenReplies, r2 \in Replies}

\* unsolicited measurement frames of a device in active mode
PushFrames == {Frame(HEAD, 192, p, 0) : p \in Payloads}

RECURSIVE Runs(_)
\* the runs of n noise bytes, none of them the head byte
Runs(n) ==
    IF n = 0 THEN {<<>>}
    ELSE {<<b>> \o r : b \in {0, 192}, r \in Runs(n - 1)}

NoiseRuns == UNION {Runs(n) : n \in 0..MaxNoise}

\* what follows a frame in the stream
Extras == {<<>>, <<7, 7>>, Frame(HEAD, 192, Payload2, 0)}

\* an unsynchronised stream: noise, then a frame, then more; the same after
\* a stray head byte; a frame cut short
Bursts ==
    {n \o Frame(HEAD, 192, Payload1, k) \o e :
        n \in NoiseRuns, k \in {0, 1}, e \in Extras}
    \cup {<<HEAD>> \o n \o Frame(HEAD, 192, Payload1, 0) \o e :
        n \in NoiseRuns, e \in Extras}
    \cup {Slice(Frame(HEAD, 192, Payload1, 0), 0, n) : n \in {1, 2, 5}}

\* work_time of set_work_period: the ends of 0..30 and values outside
WorkTimes == {-1, 0, 30, 31, 35}

----------------------------------------------------------------------------
(* Calls. *)

\* the driver and its port as a call finds them
Enter(resp) ==
    [open |-> ser_open, mode |-> use_query_mode, rx |-> rx, resp |-> resp,
     dev |-> dev_query_mode, answers |-> FALSE,
     log |-> <<>>, printed |-> <<>>, raw |-> <<>>, got |-> <<>>,
     ret |-> None, exc |-> ""]

\* the driver and its port inside the loop of read
Resume ==
    [open |-> ser_open, mode |-> use_query_mode, rx |-> rx, resp |-> <<>>,
     dev |-> dev_query_mode, answers |-> FALSE,
     log |-> log, printed |-> printed, raw |-> raw, got |-> <<>>,
     ret |-> Pending, exc |-> ""]

Call(op, read, arg) ==
    [op |-> op, read |-> read, arg |-> arg,
     open0 |-> ser_open, mode0 |-> use_query_mode, rx0 |-> rx]

Result(s) == IF s.exc # "" THEN [kind |-> s.exc, v |-> <<>>] ELSE s.ret

\* the call is over: s is what it left
Leave(s) ==
    /\ ser_open' = s.open
    /\ use_query_mode' = s.mode
    /\ rx' = s.rx
    /\ dev_query_mode' = s.dev
    /\ log' = s.log
    /\ printed' = s.printed
    /\ raw' = s.raw
    /\ ret' = Result(s)
    /\ pc' = "idle"
    /\ UNCHANGED <<pushes, timeouts>>

\* the port __init__ has just made, and the device as it finds it: in
\* active mode, as it leaves the factory
New(q, resp, answers) ==
    [open |-> TRUE, mode |-> q, rx |-> <<>>, resp |-> resp,
     dev |-> FALSE, answers |-> answers,
     log |-> <<>>, printed |-> <<>>, raw |-> <<>>, got |-> <<>>,
     ret |-> None, exc |-> ""]

\* __init__: the object exists when the constructor did not raise
Init ==
    \E q \in BOOLEAN, r \in Replies :
        LET s == set_report_mode(New(q, <<r>>, FALSE), FALSE, q)
        IN  /\ s.exc = ""
            /\ ser_open = s.open
            /\ use_query_mode = s.mode
            /\ rx = s.rx
            /\ dev_query_mode = s.dev
            /\ pushes = 0
            /\ pc = "idle"
            /\ timeouts = 0
            /\ call = [op |-> "__init__", read |-> FALSE, arg |-> IF q THEN 1 ELSE 0,
                       open0 |-> TRUE, mode0 |-> q, rx0 |-> <<>>]
            /\ log = s.log
            /\ printed = s.printed
            /\ raw = s.raw
            /\ ret = s.ret

SetReportMode ==
    /\ pc = "idle"
    /\ \E read \in BOOLEAN, q \in BOOLEAN, resp \in Responses(ser_open) :
        /\ call' = Call("set_report_mode", read, IF q THEN 1 ELSE 0)
        /\ Leave(set_report_mode(Enter(resp), read, q))

Query ==
    /\ pc = "idle"
    /\ \E resp \in Responses(ser_open) :
        /\ call' = Call("query", FALSE, 0)
        /\ Leave(query(Enter(resp)))

Sleep ==
    /\ pc = "idle"
    /\ \E read \in BOOLEAN, slp \in BOOLEAN, resp \in Responses(ser_open) :
        /\ call' = Call("sleep", read, IF slp THEN 1 ELSE 0)
        /\ Leave(sleep(Enter(resp), read, slp))

SetWorkPeriod ==
    /\ pc = "idle"
    /\ \E read \in BOOLEAN, work_time \in WorkTimes, resp \in Responses(ser_open) :
        /\ call' = Call("set_work_period", read, work_time)
        /\ Leave(set_work_period(Enter(resp), read, work_time))

CheckFirmwareVersion ==
    /\ pc = "idle"
    /\ \E resp \in Responses(ser_open) :
        /\ call' = Call("check_firmware_version", FALSE, 0)
        /\ Leave(check_firmware_version(Enter(resp)))

\* close_serial
CloseSerial ==
    /\ pc = "idle"
    /\ ser_open
    /\ call' = Call("close_serial", FALSE, 0)
    /\ ser_open' = FALSE
    /\ log' = <<>>
    /\ printed' = <<>>
    /\ raw' = <<>>
    /\ ret' = None
    /\ UNCHANGED <<use_query_mode, rx, dev_query_mode, pushes, pc, timeouts>>

\* read is called: the port is reopened when closed, then the loop starts
ReadCall ==
    /\ pc = "idle"
    /\ \E resp \in Responses(ser_open) :
        LET s == read_enter(Enter(resp)) IN
        /\ call' = Call("read", FALSE, 0)
        /\ ser_open' = s.open
        /\ use_query_mode' = s.mode
        /\ rx' = s.rx
        /\ dev_query_mode' = s.dev
        /\ log' = s.log
        /\ printed' = s.printed
        /\ raw' = s.raw
        /\ ret' = IF s.exc # "" THEN Result(s) ELSE Pending
        /\ pc' = IF s.exc # "" THEN "idle" ELSE "read"
        /\ UNCHANGED <<pushes, timeouts>>

\* one pass of the loop of read.  A pass in which both reads time out
\* leaves the program where it was: it is counted, and not added to the log.
ReadIter ==
    /\ pc = "read"
    /\ LET s == read_pass(Resume) IN
        /\ ser_open' = s.open
        /\ use_query_mode' = s.mode
        /\ rx' = s.rx
        /\ dev_query_mode' = s.dev
        /\ log' = IF rx = <<>> THEN log ELSE s.log
        /\ printed' = s.printed
        /\ raw' = s.raw
        /\ ret' = Result(s)
        /\ pc' = IF s.exc = "" /\ s.ret = Pending THEN "read" ELSE "idle"
        /\ timeouts' = IF rx = <<>> THEN 1 - timeouts ELSE timeouts
        /\ UNCHANGED <<pushes, call>>

\* the device sends bytes nobody asked for
DevicePush(B) ==
    /\ rx = <<>>
    /\ pushes < MaxPush
    /\ \E b \in B : rx' = b
    /\ pushes' = pushes + 1
    /\ UNCHANGED <<ser_open, use_query_mode, dev_query_mode, pc, timeouts, call, log,
                   printed, raw, ret>>

PushFrame == DevicePush(PushFrames)
PushBurst == DevicePush(Bursts)

Next ==
    \/ SetReportMode
    \/ Query
    \/ Sleep
    \/ SetWorkPeriod
    \/ CheckFirmwareVersion
    \/ CloseSerial
    \/ ReadCall
    \/ ReadIter
    \/ PushFrame

Spec == Init /\ [][Next]_vars

\* read on an unsynchronised stream
NextRead ==
    \/ CloseSerial
    \/ ReadCall
    \/ ReadIter
    \/ PushBurst

ReadSpec == Init /\ [][NextRead]_vars

\* the loop of read runs on while the call has not returned
FairReadSpec == ReadSpec /\ WF_vars(ReadIter)

----------------------------------------------------------------------------
(* The same calls with a device that works as the protocol says: it takes  *)
(* every command, answers it with one valid frame, and pushes a            *)
(* measurement frame now and then while it is in active mode.              *)

\* the driver and its port as a call finds them, with that device
EnterDevice == [Enter(<<>>) EXCEPT !.answers = TRUE]

\* __init__ with that device
DeviceInit ==
    \E q \in BOOLEAN :
        /\ ser_open = set_report_mode(New(q, <<>>, TRUE), FALSE, q).open
        /\ use_query_mode = set_report_mode(New(q, <<>>, TRUE), FALSE, q).mode
        /\ rx = set_report_mode(New(q, <<>>, TRUE), FALSE, q).rx
        /\ dev_query_mode = set_report_mode(New(q, <<>>, TRUE), FALSE, q).dev
        /\ pushes = 0
        /\ pc = "idle"
        /\ timeouts = 0
        /\ call = [op |-> "__init__", read |-> FALSE, arg |-> IF q THEN 1 ELSE 0,
                   open0 |-> TRUE, mode0 |-> q, rx0 |-> <<>>]
        /\ log = set_report_mode(New(q, <<>>, TRUE), FALSE, q).log
        /\ printed = <<>>
        /\ raw = set_report_mode(New(q, <<>>, TRUE), FALSE, q).raw
        /\ ret = Result(set_report_mode(New(q, <<>>, TRUE), FALSE, q))

DeviceSetReportMode ==
    /\ pc = "idle"
    /\ \E read \in BOOLEAN, q \in BOOLEAN :
        /\ call' = Call("set_report_mode", read, IF q THEN 1 ELSE 0)
        /\ Leave(set_report_mode(EnterDevice, read, q))

DeviceQuery ==
    /\ pc = "idle"
    /\ call' = Call("query", FALSE, 0)
    /\ Leave(query(EnterDevice))

DeviceSleep ==
    /\ pc = "idle"
    /\ \E read \in BOOLEAN, slp \in BOOLEAN :
        /\ call' = Call("sleep", read, IF slp THEN 1 ELSE 0)
        /\ Leave(sleep(EnterDevice, read, slp))

DeviceSetWorkPeriod ==
    /\ pc = "idle"
    /\ \E read \in BOOLEAN, work_time \in WorkTimes :
        /\ call' = Call("set_work_period", read, work_time)
        /\ Leave(set_work_period(EnterDevice, read, work_time))

DeviceCheckFirmwareVersion ==
    /\ pc = "idle"
    /\ call' = Call("check_firmware_version", FALSE, 0)
    /\ Leave(check_firmware_version(EnterDevice))

\* read is called with that device
DeviceReadCall ==
    /\ pc = "idle"
    /\ LET s == read_enter(EnterDevice) IN
        /\ call' = Call("read", FALSE, 0)
        /\ ser_open' = s.open
        /\ use_query_mode' = s.mode
        /\ rx' = s.rx
        /\ dev_query_mode' = s.dev
        /\ log' = s.log
        /\ printed' = s.printed
        /\ raw' = s.raw
        /\ ret' = IF s.exc # "" THEN Result(s) ELSE Pending
        /\ pc' = IF s.exc # "" THEN "idle" ELSE "read"
        /\ UNCHANGED <<pushes, timeouts>>

\* the device in active mode sends a measurement frame
DeviceReport ==
    /\ ~dev_query_mode
    /\ pushes < MaxReport
    /\ Len(rx) < 10
    /\ rx' = rx \o device_frame(192, <<250, 0, 194, 1>>)
    /\ pushes' = pushes + 1
    /\ UNCHANGED <<ser_open, use_query_mode, dev_query_mode, pc, timeouts, call, log,
                   printed, raw, ret>>

\* every public operation, with a device that works
DeviceNext ==
    \/ DeviceSetReportMode
    \/ DeviceQuery
    \/ DeviceSleep
    \/ DeviceSetWorkPeriod
    \/ DeviceCheckFirmwareVersion
    \/ CloseSerial
    \/ DeviceReadCall
    \/ ReadIter
    \/ DeviceReport

DeviceSpec == DeviceInit /\ [][DeviceNext]_vars

\* the request/reply operations, with a device that works and sends
\* nothing it was not asked for
CommandNext ==
    \/ DeviceSetReportMode
    \/ DeviceQuery
    \/ DeviceSleep
    \/ DeviceSetWorkPeriod
    \/ DeviceCheckFirmwareVersion
    \/ CloseSerial

CommandSpec == DeviceInit /\ [][CommandNext]_vars

----------------------------------------------------------------------------
(* Properties. *)

Exceptions == {"IndexError", "TypeError", "AssertionError", "struct.error"}

CommandOps ==
    {"set_report_mode", "query", "sleep", "set_work_period", "check_firmware_version"}

\* the call has returned or raised
Over == pc = "idle"

\* the call has returned a value
Returned == Over /\ ret.kind \notin Exceptions

\* the command id the call puts at offset 2
CmdIdOf(op) ==
    CASE op = "set_report_mode" -> 2
      [] op = "query" -> 4
      [] op = "sleep" -> 6
      [] op = "check_firmware_version" -> 7
      [] op = "set_work_period" -> 8
      [] OTHER -> 0

\* the checksum of a 10-byte frame is right
ChecksumOk(b) == b[9] = (b[3] + b[4] + b[5] + b[6] + b[7] + b[8]) % 256

\* the measurement a frame carries, each value as <<integer part, tenths>>
Measured(b) ==
    [kind |-> "pm",
     v |-> <<(b[3] + 256 * b[4]) \div 10, (b[3] + 256 * b[4]) % 10,
             (b[5] + 256 * b[6]) \div 10, (b[5] + 256 * b[6]) % 10>>]

\* a valid measurement frame starts at offset k of the stream b
MeasurementAt(b, k) ==
    /\ Len(b) >= k + 10
    /\ b[k + 1] = 170
    /\ b[k + 2] = 192
    /\ ChecksumOk(SubSeq(b, k + 1, k + 10))
    /\ b[k + 10] = 171

\* C1: every command written to the port, by any call with any arguments,
\* is 19 bytes long, starts AA B4, ends AB, has FF FF at offsets 15 and 16,
\* and at offset 17 the sum of the bytes at offsets 2 to 16 modulo 256.
C1_CommandFraming ==
    \A i \in 1..Len(log) :
        log[i].ev = "write" =>
            LET c == log[i].bytes IN
            /\ Len(c) = 19
            /\ c[1] = 170 /\ c[2] = 180
            /\ c[19] = 171
            /\ c[16] = 255 /\ c[17] = 255
            /\ c[18] = Sum(SubSeq(c, 3, 17)) % 256

\* set_work_period(30) has written its command, with a checksum that is
\* not the plain sum
C1_Witness ==
    /\ call.op = "set_work_period" /\ call.arg = 30 /\ call.open0 /\ Returned
    /\ \E i \in 1..Len(log) :
        /\ log[i].ev = "write"
        /\ log[i].bytes[3] = 8 /\ log[i].bytes[5] = 30
        /\ log[i].bytes[18] = (8 + 1 + 30 + 255 + 255) % 256

\* C2: a 10-byte buffer is accepted by frame validation exactly when its
\* byte 0 is AA and its byte 8 is the sum of bytes 2 to 7 modulo 256: in
\* query (by _get_reply) and in read (by _process_frame).
C2_ValidateIff ==
    /\ (call.op = "query" /\ Returned /\ Len(raw) = 10) =>
          (ret.kind = "pm" <=> (raw[1] = 170 /\ ChecksumOk(raw)))
    /\ (call.op = "read" /\ Returned /\ Len(raw) = 11) =>
          (ret.kind = "pm" <=> (raw[1] = 170 /\ ChecksumOk(raw)))

\* C3: set_report_mode changes use_query_mode only when it is a write and a
\* valid reply came; otherwise use_query_mode is what it was.
C3_ModeOnlyOnWriteAndReply ==
    (call.op = "set_report_mode" /\ Over /\ ~(~call.read /\ ret.kind = "int")) =>
        use_query_mode = call.mode0

\* C4: once the port delivers nothing any more, a read() in its loop
\* returns None.
C4_ReadReturnsOnTimeout ==
    (pc = "read" /\ rx = <<>> /\ pushes = MaxPush) ~> (pc = "idle" /\ ret = None)

\* C5: with N bytes other than AA, then a valid measurement frame, then
\* more bytes in the stream, read() returns the measurement of that frame
\* and the byte after the frame's tail is the next one unread.
C5_ReadResyncsAfterNoise ==
    \A n \in 0..Len(call.rx0) :
        ( /\ call.op = "read" /\ call.open0 /\ Over
          /\ \A i \in 1..n : call.rx0[i] # 170
          /\ MeasurementAt(call.rx0, n)
          /\ Len(call.rx0) > n + 10 ) =>
            /\ ret = Measured(SubSeq(call.rx0, n + 1, n + 10))
            /\ rx = SubSeq(call.rx0, n + 11, Len(call.rx0))

\* C6: after an AA that no C0 follows, read() goes on at the next byte: a
\* valid measurement frame that starts within the 10 bytes after that AA is
\* the one the call returns.
C6_ReadRetriesAtNextByte ==
    \A k \in 1..10 :
        ( /\ call.op = "read" /\ call.open0 /\ Over
          /\ Len(call.rx0) >= 2 /\ call.rx0[1] = 170 /\ call.rx0[2] # 192
          /\ \A j \in 1..(k - 1) : ~MeasurementAt(call.rx0, j)
          /\ MeasurementAt(call.rx0, k) ) =>
            ret = Measured(SubSeq(call.rx0, k + 1, k + 10))

\* C7: query never raises, and returns None when the reply is malformed: a
\* reply of fewer than 10 bytes, a wrong head byte, a wrong checksum.
C7_MalformedReplyIsNone ==
    (call.op = "query" /\ Over) =>
        /\ ret.kind \notin Exceptions
        /\ (Len(raw) < 10 \/ raw[1] # 170 \/ ~ChecksumOk(raw)) => ret = None

\* the value of use_query_mode when the call reopens the port: the one the
\* call found, but for set_report_mode, which has set it to its query
\* argument before it writes
CachedAtReopen ==
    IF call.op = "set_report_mode" THEN call.arg = 1 ELSE call.mode0

C9_QueryDecodes ==
    (call.op = "query" /\ call.open0 /\ call.mode0 /\ Over /\ Len(raw) = 10) =>
        /\ log = <<WriteEv(<<170, 180, 4, 0, 0, 0, 0, 0, 0, 0, 0, 0, 0, 0, 0,
                             255, 255, 2, 171>>),
                   ReadEv(10, raw)>>
        /\ IF ChecksumOk(raw) THEN ret = Measured(raw) ELSE ret = None
        /\ raw = <<170, 192, 250, 0, 194, 1, 0, 0, 189, 171>> =>
              ret.v = <<25, 0, 45, 0>>

\* query() has returned 25.0 and 45.0 for the reply of the example
C9_Witness ==
    /\ call.op = "query" /\ call.open0 /\ call.mode0 /\ Over
    /\ raw = <<170, 192, 250, 0, 194, 1, 0, 0, 189, 171>>
    /\ ret = [kind |-> "pm", v |-> <<25, 0, 45, 0>>]

\* C10: in active mode, a measurement frame (marker C0, valid checksum) that
\* is the next 10 bytes of the stream when a command is issued is not taken for the
\* command's reply: set_report_mode returns None, sleep returns 0, and
\* check_firmware_version returns no string.
C10_ReplyMarkerChecked ==
    ( /\ call.op \in {"set_report_mode", "sleep", "check_firmware_version"}
      /\ call.open0 /\ ~call.mode0 /\ Over
      /\ MeasurementAt(call.rx0, 0) ) =>
        /\ call.op = "set_report_mode" => ret = None
        /\ call.op = "sleep" => ret = IntVal(0)
        /\ call.op = "check_firmware_version" => ret.kind # "str"

\* the last thing the call did on the port was a read
LastIsRead == Len(log) > 0 /\ log[Len(log)].ev = "read"

\* the lines query and read print
UseRead == "SDS011 is in active reporting mode, use read()"
UseQuery == "SDS011 is in query reporting mode, use query()"

\* C11: no request/reply operation raises when its reply is absent (the
\* read gives 0 bytes) or is 10 bytes with a wrong checksum: it returns None
\* (sleep: 0).
C11_NoRaiseOnBadReply ==
    ( /\ call.op \in CommandOps /\ Over /\ LastIsRead
      /\ (raw = <<>> \/ (Len(raw) = 10 /\ ~ChecksumOk(raw))) ) =>
        /\ ret.kind \notin Exceptions
        /\ ret = (IF call.op = "sleep" THEN IntVal(0) ELSE None)

\* the reply is a whole frame with the head byte and the right checksum
ValidReply(b) == Len(b) = 10 /\ b[1] = 170 /\ ChecksumOk(b)

\* C12: query() that gets no valid reply returns None and does not raise;
\* it prints the advisory when use_query_mode is false, and nothing when it
\* is true.
C12_QueryAdvisory ==
    (call.op = "query" /\ Over /\ LastIsRead /\ ~ValidReply(raw)) =>
        /\ ret = None
        /\ printed = (IF call.mode0 THEN <<>> ELSE <<UseRead>>)

\* C13: read() that gives no measurement while use_query_mode is true has
\* printed the advisory and returned None, whether no frame was found (no
\* buffer went to frame validation) or a frame failed its checksum (a whole
\* one did).  Stated for a call that finds the port open.
C13_ReadAdvisory ==
    ( /\ call.op = "read" /\ call.open0 /\ Over /\ call.mode0
      /\ Len(raw) \in {0, 11} /\ ret.kind # "pm" ) =>
        /\ ret = None
        /\ printed = <<UseQuery>>

\* C14: set_work_period raises AssertionError exactly when work_time is
\* outside 0..30.  When it does, nothing was written to or read from the
\* port, a closed port is still closed and use_query_mode is what it was;
\* when the call returns, it has written exactly one 08 command, with
\* work_time as its data byte.
C14_WorkPeriodContract ==
    (call.op = "set_work_period" /\ Over) =>
        /\ ret.kind = "AssertionError" <=> ~(call.arg >= 0 /\ call.arg <= 30)
        /\ ret.kind = "AssertionError" =>
              /\ log = <<>>
              /\ ser_open = call.open0
              /\ use_query_mode = call.mode0
        /\ Returned =>
              /\ Cardinality({i \in 1..Len(log) :
                      log[i].ev = "write" /\ log[i].bytes[3] = 8}) = 1
              /\ \A i \in 1..Len(log) :
                    (log[i].ev = "write" /\ log[i].bytes[3] = 8) =>
                        log[i].bytes[5] = call.arg

\* set_work_period(35) on a closed port has raised and left the port closed
C14_Witness ==
    /\ call.op = "set_work_period" /\ call.arg = 35 /\ ~call.open0
    /\ ret.kind = "AssertionError" /\ ~ser_open /\ log = <<>>

\* C15: with a device that applies every report mode it is written and
\* answers every command with a valid frame, use_query_mode is the report
\* mode of the device, after construction and after every public operation.
C15_CacheIsDeviceMode == Over => use_query_mode = dev_query_mode

\* C16: query, read, sleep, set_work_period and check_firmware_version
\* leave use_query_mode as they found it, whatever the device sends and
\* whether or not the call reopens the port.
C16_ModeKept ==
    call.op \in {"query", "read", "sleep", "set_work_period", "check_firmware_version"} =>
        use_query_mode = call.mode0

\* sleep() found the port closed in query mode, reissued the report mode,
\* got an answer to it and returned
C16_Witness ==
    /\ call.op = "sleep" /\ ~call.open0 /\ call.mode0 /\ Returned
    /\ Len(log) = 5 /\ log[2].ev = "write" /\ log[2].bytes[3] = 2
    /\ Len(log[3].bytes) = 10
    /\ use_query_mode

\* the frame r is the answer of the device to the command c
AnswerTo(r, c) ==
    /\ Len(r) = 10
    /\ IF c[3] = 4 THEN r[2] = 192 ELSE r[2] = 197 /\ r[3] = c[3]

\* C17: with a device that answers each command with one 10-byte frame and
\* sends nothing else, every write of a call is followed by a read that
\* takes the answer to that very command, every read follows such a write,
\* and no byte is left unread when the call is over.
C17_ReplyConsumed ==
    /\ rx = <<>>
    /\ \A i \in 1..Len(log) :
        /\ log[i].ev = "write" =>
              i < Len(log) /\ log[i + 1].ev = "read"
        /\ log[i].ev = "read" =>
              i > 1 /\ log[i - 1].ev = "write" /\ AnswerTo(log[i].bytes, log[i - 1].bytes)

\* check_firmware_version() found the port closed, wrote two commands and
\* read the answer to each
C17_Witness ==
    /\ call.op = "check_firmware_version" /\ ~call.open0 /\ Returned
    /\ Len(log) = 5 /\ log[2].bytes[3] = 2 /\ log[3].bytes[3] = 2
    /\ log[4].bytes[3] = 7 /\ log[5].bytes[3] = 7
    /\ ret.kind = "str" /\ rx = <<>>

====
